---- MODULE Spec2Model ----
(***************************************************************************)
(* Model of the shared infrastructure of semantic-scholar-mcp:             *)
(*   - LocalCache (crates/local_cache): store / search_similarity over an  *)
(*     LMDB table keyed by query text, with TTL purge;                     *)
(*   - RateLimiter::acquire and make_request (semantic_scholar_mcp_tools/  *)
(*     utils.rs);                                                          *)
(*   - the tools' execute methods that compose them.                       *)
(*                                                                         *)
(* Arithmetic is exact: an f32 similarity s is represented by the rational *)
(* sgn(s) * s^2 (a strictly monotone image of s), so ordering and equality *)
(* of similarities are decided without square roots; f32 rounding,         *)
(* overflow and NaN inputs are outside the model.                          *)
(***************************************************************************)
EXTENDS Integers, Sequences, FiniteSets, TLC

VARIABLES
    storage,        \* LocalCache.storage: text key -> CacheEntry<Query>
    now,            \* chrono::Utc::now(), in abstract time units
    call,           \* the last completed Cache call and what it returned
    last_call_time, \* RateLimiter.last_call_time: endpoint -> Instant (ms)
    lock,           \* holder of the Mutex around last_call_time, 0 when free
    clk,            \* Instant::now(), in milliseconds
    acq,            \* per caller: where its acquire call stands
    rq,             \* the make_request call in progress
    tool,           \* the tool operation in progress
    task,           \* per concurrent cache caller: where its call stands
    writer          \* holder of the LMDB write transaction, "" when none

cacheVars == <<storage, now, call>>

limiterVars == <<last_call_time, lock, clk, acq>>

\* what the calls on the cache leave alone
\* the callers that run concurrently on the cache
concVars == <<task, writer>>

notCacheVars == <<last_call_time, lock, clk, acq, rq, tool, task, writer>>

vars == <<storage, now, call, last_call_time, lock, clk, acq, rq, tool, task, writer>>

----------------------------------------------------------------------------
(* Bounds and configuration *)

\* number of distinct text keys; keys are 1..NumTexts in LMDB key order
NumTexts == 2

\* the wall clock runs from 0 to MaxTime
MaxTime == 2

\* LocalCache.ttl, in the same units as now
TTL == 1

\* number of tasks calling acquire
NumProcs == 2

\* the monotonic clock of the rate limiter runs for MaxTicks steps of 500 ms
MaxTicks == 4

\* make_request is called at most MaxSteps steps of 100 ms after time 0
MaxSteps == 12

\* embedding components range over -MaxComp..MaxComp when the cosine is
\* checked on its own
MaxComp == 2

\* number of tool operations run one after the other
MaxOps == 3

\* let rate_limit = Duration::from_secs(1), in milliseconds
RateLimit == 1000

\* let max_retries = 5
MaxRetries == 5

\* let mut retry_delay = Duration::from_millis(100)
InitialRetryDelay == 100

Procs == 1..NumProcs

Endpoints == { "/paper/search", "/author/1" }

Texts == 1..NumTexts

\* embeddings handed to store and to search_similarity
StoreVecs == { <<1, 0>>, <<-1, 1>>, <<0, 0>> }

QueryVecs == StoreVecs \cup { <<>>, <<2, 0>>, <<0, 0, 1>> }

\* the (action, params, results) carried by the Query stored with an embedding
PayloadOf(v) ==
    CASE v = <<1, 0>>    -> [action |-> "paper_search",  params |-> <<"p1">>, results |-> "r1"]
      [] v = <<-1, 1>>   -> [action |-> "author_search", params |-> <<>>,     results |-> "r2"]
      [] OTHER           -> [action |-> "paper_search",  params |-> <<"p2">>, results |-> "r3"]

\* cache.rs Query: params is Option<Value>, modelled as a sequence of length <= 1
Query(t, v) ==
    [action |-> PayloadOf(v).action, text |-> t, params |-> PayloadOf(v).params,
     embedding |-> v, results |-> PayloadOf(v).results]

Queries == { Query(t, v) : t \in Texts, v \in StoreVecs }

----------------------------------------------------------------------------
(* Pure helpers *)

Min(a, b) == IF a <= b THEN a ELSE b

RECURSIVE Gcd(_, _)
Gcd(a, b) == IF b = 0 THEN a ELSE Gcd(b, a % b)

RECURSIVE SumTo(_, _)
\* sum of f[1] .. f[n]
SumTo(f, n) == IF n = 0 THEN 0 ELSE f[n] + SumTo(f, n - 1)

\* the three accumulators of the zip loop: only the shared prefix is visited
ZipLen(a, b) == Min(Len(a), Len(b))

DotProduct(a, b) == SumTo([i \in 1..ZipLen(a, b) |-> a[i] * b[i]], ZipLen(a, b))

\* squared magnitude of the stored embedding a over the shared prefix
QueryMagnitude2(a, b) == SumTo([i \in 1..ZipLen(a, b) |-> a[i] * a[i]], ZipLen(a, b))

\* squared magnitude of the searched embedding b over the shared prefix
EmbeddingMagnitude2(a, b) == SumTo([i \in 1..ZipLen(a, b) |-> b[i] * b[i]], ZipLen(a, b))

\* mutant: vectors of different lengths are never compared
BothNonZero_SameLen(a, b) ==
    Len(a) = Len(b) /\ QueryMagnitude2(a, b) > 0 /\ EmbeddingMagnitude2(a, b) > 0

\* query_magnitude > 0.0 && embedding_magnitude > 0.0
BothNonZero(a, b) == QueryMagnitude2(a, b) > 0 /\ EmbeddingMagnitude2(a, b) > 0

\* mutant: the dot product is not divided by the magnitudes
Similarity_NoNorm(a, b) ==
    LET dot == DotProduct(a, b)
    IN  [n |-> (IF dot < 0 THEN -1 ELSE 1) * dot * dot, d |-> 1]

\* mutant: the dot product is divided by the stored vector's magnitude only
Similarity_HalfNorm(a, b) ==
    LET dot == DotProduct(a, b)
        den == QueryMagnitude2(a, b)
        g   == Gcd(dot * dot, den)
        sg  == IF dot < 0 THEN -1 ELSE 1
    IN  [n |-> sg * ((dot * dot) \div g), d |-> den \div g]

\* dot / (|a| * |b|), as the reduced fraction n/d = sgn(dot) * dot^2 / (|a|^2 |b|^2)
Similarity(a, b) ==
    LET dot == DotProduct(a, b)
        den == QueryMagnitude2(a, b) * EmbeddingMagnitude2(a, b)
        g   == Gcd(dot * dot, den)
        sg  == IF dot < 0 THEN -1 ELSE 1
    IN  [n |-> sg * ((dot * dot) \div g), d |-> den \div g]

\* s >= t on the represented similarities
SimGeq(s, t) == s.n * t.d >= t.n * s.d

SimOne == [n |-> 1, d |-> 1]

----------------------------------------------------------------------------
(* LocalCache *)

Present(st) == DOMAIN st

\* mutant: put that keeps an entry already stored under the key
Put_KeepFirst(st, key, entry) ==
    [k \in Present(st) \cup {key} |-> IF k \in Present(st) THEN st[k] ELSE entry]

\* mutant: put that also drops the entries expired at the time of the write
Put_DropExpired(st, key, entry) ==
    [k \in { j \in Present(st) : entry.created_at - st[j].created_at <= TTL } \cup {key} |->
        IF k = key THEN entry ELSE st[k]]

\* storage.put(&mut write_txn, &key, &entry)
Put(st, key, entry) ==
    [k \in Present(st) \cup {key} |-> IF k = key THEN entry ELSE st[k]]

\* mutant: the purge transaction clears the table
DeleteAll_Clear(st, keys) == IF keys = {} THEN st ELSE <<>>

\* storage.delete for every key of the purge list, inside one write transaction
DeleteAll(st, keys) == [k \in Present(st) \ keys |-> st[k]]

\* mutant: entry_age >= ttl
Expired_Geq(entry, t) == t - entry.created_at >= TTL

\* entry_age > ttl
Expired(entry, t) == t - entry.created_at > TTL

\* the keys pushed to keys_to_purge by the scan
KeysToPurge(st, t) == { k \in Present(st) : Expired(st[k], t) }

\* mutant: a.1.partial_cmp(&b.1), ascending
InsertDesc_Asc(sorted, r) ==
    SelectSeq(sorted, LAMBDA x : SimGeq(r.sim, x.sim))
        \o <<r>>
        \o SelectSeq(sorted, LAMBDA x : ~SimGeq(r.sim, x.sim))

\* results.sort_by(|a, b| b.1.partial_cmp(&a.1)): stable; r goes after every
\* row that is not smaller than it
InsertDesc(sorted, r) ==
    SelectSeq(sorted, LAMBDA x : SimGeq(x.sim, r.sim))
        \o <<r>>
        \o SelectSeq(sorted, LAMBDA x : ~SimGeq(x.sim, r.sim))

RECURSIVE SortDesc(_)
SortDesc(rows) ==
    IF rows = <<>> THEN <<>>
    ELSE InsertDesc(SortDesc(SubSeq(rows, 1, Len(rows) - 1)), rows[Len(rows)])

RECURSIVE Collect_ZeroRow(_, _, _, _)
\* mutant: an entry with a zero magnitude gets a row of similarity 0
Collect_ZeroRow(st, t, emb, k) ==
    IF k > NumTexts THEN <<>>
    ELSE IF k \in Present(st) /\ ~Expired(st[k], t)
         THEN <<[q |-> st[k].value,
                 sim |-> IF BothNonZero(st[k].value.embedding, emb)
                         THEN Similarity(st[k].value.embedding, emb)
                         ELSE [n |-> 0, d |-> 1]]>>
                  \o Collect_ZeroRow(st, t, emb, k + 1)
         ELSE Collect_ZeroRow(st, t, emb, k + 1)

RECURSIVE Collect(_, _, _, _)
\* the for loop over storage.iter(): keys k..NumTexts in key order, pushing a
\* row for every live entry whose zip with the searched embedding is nonzero
Collect(st, t, emb, k) ==
    IF k > NumTexts THEN <<>>
    ELSE IF k \in Present(st) /\ ~Expired(st[k], t)
            /\ BothNonZero(st[k].value.embedding, emb)
         THEN <<[q |-> st[k].value, sim |-> Similarity(st[k].value.embedding, emb)]>>
                  \o Collect(st, t, emb, k + 1)
         ELSE Collect(st, t, emb, k + 1)

\* the sorted results of the read phase
Results(st, t, emb) == SortDesc(Collect(st, t, emb, 1))

NoCall ==
    [op |-> "none", ok |-> TRUE, err |-> "none", q |-> <<>>, emb |-> <<>>,
     rows |-> <<>>, purged |-> {}, seq |-> 0, over |-> FALSE, after |-> <<>>]

\* LocalCache::store, committed
StoreOk(q) ==
    /\ storage' = Put(storage, q.text, [created_at |-> now, value |-> q])
    /\ call' = [NoCall EXCEPT !.op = "store", !.q = <<q>>,
                              !.over = (q.text \in Present(storage)
                                           /\ storage[q.text].value # q)]
    /\ UNCHANGED <<now, notCacheVars>>

\* LocalCache::store returning Err from write_txn()?, put()? or commit()?: in
\* all three the write transaction is dropped uncommitted
StoreErr(q) ==
    /\ call' = [NoCall EXCEPT !.op = "store", !.q = <<q>>, !.ok = FALSE, !.err = "write"]
    /\ UNCHANGED <<storage, now, notCacheVars>>

\* number of Ok searches with embedding emb in a row, this one included
NextSeq(emb) ==
    IF call.op = "search" /\ call.ok /\ call.emb = emb THEN Min(call.seq + 1, 2) ELSE 1

\* <<q>> when the call before this search(emb) was a committed store of q with
\* q.embedding = emb and no time has passed since, else <<>>
JustStored(emb) ==
    IF call.op = "store" /\ call.ok /\ call.q[1].embedding = emb
          /\ storage[call.q[1].text].created_at = now
    THEN call.q ELSE <<>>

\* mutant: a search that refreshes created_at of the entries it keeps
SearchOk_Touch(emb) ==
    /\ storage' = [k \in Present(storage) \ KeysToPurge(storage, now) |->
                      [storage[k] EXCEPT !.created_at = now]]
    /\ call' = [NoCall EXCEPT !.op = "search", !.emb = emb,
                              !.rows = Results(storage, now, emb),
                              !.purged = KeysToPurge(storage, now),
                              !.seq = NextSeq(emb),
                              !.after = JustStored(emb)]
    /\ UNCHANGED <<now, notCacheVars>>

\* LocalCache::search_similarity returning Ok: scan, sort, purge, return
SearchOk(emb) ==
    /\ storage' = DeleteAll(storage, KeysToPurge(storage, now))
    /\ call' = [NoCall EXCEPT !.op = "search", !.emb = emb,
                              !.rows = Results(storage, now, emb),
                              !.purged = KeysToPurge(storage, now),
                              !.seq = NextSeq(emb),
                              !.after = JustStored(emb)]
    /\ UNCHANGED <<now, notCacheVars>>

\* search_similarity returning Err from the read phase (read_txn()?, iter()?,
\* item?): nothing was written
SearchReadErr(emb) ==
    /\ call' = [NoCall EXCEPT !.op = "search", !.emb = emb, !.ok = FALSE, !.err = "read"]
    /\ UNCHANGED <<storage, now, notCacheVars>>

\* a purge transaction that failed after deleting but kept its deletes (what
\* a store without transactions would do)
SearchPurgeErr_Partial(emb) ==
    /\ KeysToPurge(storage, now) # {}
    /\ storage' = DeleteAll(storage, KeysToPurge(storage, now))
    /\ call' = [NoCall EXCEPT !.op = "search", !.emb = emb, !.ok = FALSE, !.err = "purge"]
    /\ UNCHANGED <<now, notCacheVars>>

\* search_similarity returning Err from the purge transaction (write_txn()?,
\* delete()?, commit()?), which is only opened when keys_to_purge is not
\* empty; the transaction is dropped uncommitted
SearchPurgeErr(emb) ==
    /\ KeysToPurge(storage, now) # {}
    /\ call' = [NoCall EXCEPT !.op = "search", !.emb = emb, !.ok = FALSE, !.err = "purge"]
    /\ UNCHANGED <<storage, now, notCacheVars>>

\* the wall clock advances
Tick ==
    /\ now < MaxTime
    /\ now' = now + 1
    /\ UNCHANGED <<storage, call, notCacheVars>>

----------------------------------------------------------------------------
(* LocalCache called by concurrent tasks: the steps of store and of       *)
(* search_similarity, over LMDB transactions (snapshot reads, one writer)  *)

\* two tasks calling search_similarity and one calling store
Searchers == { "s1", "s2" }

Storers == { "w" }

Tasks == Searchers \cup Storers

\* the embeddings of the entries in play
ConcVecs == { <<1, 0>>, <<-1, 1>> }

ConcQueries == { Query(k, v) : k \in Texts, v \in ConcVecs }

\* the embeddings searched for
ConcSearchVecs == { <<1, 0>> }

IdleTask ==
    [pc |-> "idle", emb |-> <<>>, q |-> <<>>, rtxn |-> FALSE, snap |-> <<>>,
     raced |-> FALSE, rows |-> <<>>, keys |-> {}, deleted |-> {}, buf |-> <<>>,
     ret |-> "none"]

\* mutant: the scan reads the table as it is when a row is read
ReadView_Current(snap, st) == st

\* what storage.iter(&read_txn) iterates over: the snapshot taken when the
\* read transaction began, whatever has been committed since
ReadView(snap, st) == snap

\* mutant: a write transaction is opened for an empty purge list too
PurgeNeeded_Always(keys) == TRUE

\* if !keys_to_purge.is_empty()
PurgeNeeded(keys) == keys # {}

\* mutant: deleting an absent key is an error
DeleteOk_Strict(st, k) == k \in Present(st)

\* storage.delete(&mut write_txn, &key)? on a healthy environment: Ok(true)
\* for a present key, Ok(false) for an absent one
DeleteOk(st, k) == TRUE

\* mutant: a write transaction dropped without commit leaves its writes
Aborted_Applied(st, written) == written

\* the table after a write transaction that held the writes `written` is
\* dropped without commit
Aborted(st, written) == st

\* let mut read_txn = self.env.read_txn()?, returning Ok
ReadTxn(t, emb) ==
    /\ task[t].pc = "idle"
    /\ task' = [task EXCEPT ![t] = [IdleTask EXCEPT !.pc = "scan", !.emb = emb,
                                        !.rtxn = TRUE, !.snap = storage]]
    /\ UNCHANGED <<cacheVars, writer, limiterVars, rq, tool>>

\* self.env.read_txn()? returning Err
ReadTxnErr(t, emb) ==
    /\ task[t].pc = "idle"
    /\ task' = [task EXCEPT ![t] = [IdleTask EXCEPT !.pc = "done", !.emb = emb,
                                        !.ret = "io"]]
    /\ UNCHANGED <<cacheVars, writer, limiterVars, rq, tool>>

\* now is read, the loop and the sort run, and the block ends, which drops
\* the read transaction
Scan(t) ==
    LET view == ReadView(task[t].snap, storage)
        keys == KeysToPurge(view, now)
    IN  /\ task[t].pc = "scan"
        /\ task' = [task EXCEPT ![t].rows = Results(view, now, task[t].emb),
                                ![t].keys = keys,
                                ![t].raced = (task[t].snap # storage),
                                ![t].rtxn = FALSE,
                                ![t].snap = <<>>,
                                ![t].pc = IF PurgeNeeded(keys) THEN "purge" ELSE "done",
                                ![t].ret = IF PurgeNeeded(keys) THEN "none" ELSE "ok"]
        /\ UNCHANGED <<cacheVars, writer, limiterVars, rq, tool>>

\* storage.iter(..)? or item? returning Err
ScanErr(t) ==
    /\ task[t].pc = "scan"
    /\ task' = [task EXCEPT ![t].rtxn = FALSE, ![t].snap = <<>>,
                            ![t].pc = "done", ![t].ret = "io"]
    /\ UNCHANGED <<cacheVars, writer, limiterVars, rq, tool>>

\* let mut write_txn = self.env.write_txn()? of the purge, granted when no
\* other write transaction is open
PurgeTxn(t) ==
    /\ task[t].pc = "purge"
    /\ writer = ""
    /\ writer' = t
    /\ task' = [task EXCEPT ![t].pc = "delete"]
    /\ UNCHANGED <<cacheVars, limiterVars, rq, tool>>

\* self.env.write_txn()? of the purge returning Err
PurgeTxnErr(t) ==
    /\ task[t].pc = "purge"
    /\ task' = [task EXCEPT ![t].pc = "done", ![t].ret = "io"]
    /\ UNCHANGED <<cacheVars, writer, limiterVars, rq, tool>>

\* the deletes of the purge list and write_txn.commit()?, then Ok(results)
PurgeCommit(t) ==
    LET ok == \A k \in task[t].keys : DeleteOk(storage, k)
    IN  /\ task[t].pc = "delete"
        /\ storage' = IF ok THEN DeleteAll(storage, task[t].keys)
                            ELSE Aborted(storage, DeleteAll(storage, task[t].keys))
        /\ writer' = ""
        /\ task' = [task EXCEPT ![t].pc = "done",
                                ![t].deleted = IF ok THEN task[t].keys \cap Present(storage)
                                                     ELSE {},
                                ![t].ret = IF ok THEN "ok" ELSE "delete"]
        /\ UNCHANGED <<now, call, limiterVars, rq, tool>>

\* a delete or the commit of the purge fails on the environment: the
\* transaction is dropped and the error returned
PurgeAbort(t) ==
    /\ task[t].pc = "delete"
    /\ storage' = Aborted(storage, DeleteAll(storage, task[t].keys))
    /\ writer' = ""
    /\ task' = [task EXCEPT ![t].pc = "done", ![t].ret = "io"]
    /\ UNCHANGED <<now, call, limiterVars, rq, tool>>

\* store: let mut write_txn = self.env.write_txn()?, granted when no other
\* write transaction is open
WriteTxn(t, q) ==
    /\ task[t].pc = "idle"
    /\ writer = ""
    /\ writer' = t
    /\ task' = [task EXCEPT ![t] = [IdleTask EXCEPT !.pc = "put", !.q = <<q>>]]
    /\ UNCHANGED <<cacheVars, limiterVars, rq, tool>>

\* store: self.env.write_txn()? returning Err
WriteTxnErr(t, q) ==
    /\ task[t].pc = "idle"
    /\ task' = [task EXCEPT ![t] = [IdleTask EXCEPT !.pc = "done", !.q = <<q>>,
                                        !.ret = "io"]]
    /\ UNCHANGED <<cacheVars, writer, limiterVars, rq, tool>>

\* store: the entry is built with created_at = now and put in the
\* transaction
StorePut(t) ==
    /\ task[t].pc = "put"
    /\ task' = [task EXCEPT ![t].pc = "commit",
                            ![t].buf = <<[created_at |-> now, value |-> task[t].q[1]]>>]
    /\ UNCHANGED <<cacheVars, writer, limiterVars, rq, tool>>

\* store: storage.put(..)? returning Err; the transaction is dropped
StorePutErr(t) ==
    /\ task[t].pc = "put"
    /\ storage' = Aborted(storage, Put(storage, task[t].q[1].text,
                                       [created_at |-> now, value |-> task[t].q[1]]))
    /\ writer' = ""
    /\ task' = [task EXCEPT ![t].pc = "done", ![t].ret = "io"]
    /\ UNCHANGED <<now, call, limiterVars, rq, tool>>

\* store: write_txn.commit()? returning Ok, then Ok(())
StoreCommit(t) ==
    /\ task[t].pc = "commit"
    /\ storage' = Put(storage, task[t].q[1].text, task[t].buf[1])
    /\ writer' = ""
    /\ task' = [task EXCEPT ![t].pc = "done", ![t].ret = "ok"]
    /\ UNCHANGED <<now, call, limiterVars, rq, tool>>

\* store: write_txn.commit()? returning Err; nothing is committed
StoreCommitErr(t) ==
    /\ task[t].pc = "commit"
    /\ storage' = Aborted(storage, Put(storage, task[t].q[1].text, task[t].buf[1]))
    /\ writer' = ""
    /\ task' = [task EXCEPT ![t].pc = "done", ![t].ret = "io"]
    /\ UNCHANGED <<now, call, limiterVars, rq, tool>>

\* the wall clock advances while the tasks run
ConcTick ==
    /\ now < MaxTime
    /\ now' = now + 1
    /\ UNCHANGED <<storage, call, concVars, limiterVars, rq, tool>>

----------------------------------------------------------------------------
(* RateLimiter *)

IdleAcq == [pc |-> "idle", endpoint |-> "", sleep_time |-> 0, wake |-> 0]

\* mutant: sleeps for the time elapsed instead of the time remaining
SleepTime_Elapsed(e) ==
    IF e \in DOMAIN last_call_time /\ clk - last_call_time[e] < RateLimit
    THEN clk - last_call_time[e]
    ELSE 0

\* rate_limit - elapsed when there is a last call less than rate_limit ago,
\* else no sleep
SleepTime(e) ==
    IF e \in DOMAIN last_call_time /\ clk - last_call_time[e] < RateLimit
    THEN RateLimit - (clk - last_call_time[e])
    ELSE 0

\* last_call_map.insert(endpoint, Instant::now())
Insert(m, e, t) == [x \in DOMAIN m \cup {e} |-> IF x = e THEN t ELSE m[x]]

\* a task calls acquire(endpoint) and waits on last_call_time.lock()
Call(p, e) ==
    /\ acq[p].pc = "idle"
    /\ acq' = [acq EXCEPT ![p] = [IdleAcq EXCEPT !.pc = "lock", !.endpoint = e]]
    /\ UNCHANGED <<last_call_time, lock, clk>>

\* mutant: the guard is dropped before the delay
Lock_ReleasedForSleep(p) ==
    /\ acq[p].pc = "lock"
    /\ lock = 0
    /\ lock' = 0
    /\ acq' = [acq EXCEPT ![p].pc = "hold",
                           ![p].sleep_time = SleepTime(acq[p].endpoint),
                           ![p].wake = clk + SleepTime(acq[p].endpoint)]
    /\ UNCHANGED <<last_call_time, clk>>

\* the lock is granted; the task reads the last call of its endpoint and
\* starts Delay::new(sleep_time) with the lock held
Lock(p) ==
    /\ acq[p].pc = "lock"
    /\ lock = 0
    /\ lock' = p
    /\ acq' = [acq EXCEPT ![p].pc = "hold",
                           ![p].sleep_time = SleepTime(acq[p].endpoint),
                           ![p].wake = clk + SleepTime(acq[p].endpoint)]
    /\ UNCHANGED <<last_call_time, clk>>

\* mutant: the timestamp is recorded but the guard is never dropped
Record_KeepsLock(p) ==
    /\ acq[p].pc = "hold"
    /\ clk >= acq[p].wake
    /\ last_call_time' = Insert(last_call_time, acq[p].endpoint, clk)
    /\ lock' = lock
    /\ acq' = [acq EXCEPT ![p].pc = "done"]
    /\ UNCHANGED clk

\* the delay (if any) is over: the task records Instant::now() for its
\* endpoint, drops the guard and returns Ok(())
Record(p) ==
    /\ acq[p].pc = "hold"
    /\ clk >= acq[p].wake
    /\ last_call_time' = Insert(last_call_time, acq[p].endpoint, clk)
    /\ lock' = 0
    /\ acq' = [acq EXCEPT ![p].pc = "done"]
    /\ UNCHANGED clk

\* the caller of acquire goes on with Ok(())
Return(p) ==
    /\ acq[p].pc = "done"
    /\ acq' = [acq EXCEPT ![p] = IdleAcq]
    /\ UNCHANGED <<last_call_time, lock, clk>>

\* acquire called on its own by task p
AcquireCall(p, e) == Call(p, e) /\ UNCHANGED <<cacheVars, rq, tool, concVars>>

AcquireLock(p) == Lock(p) /\ UNCHANGED <<cacheVars, rq, tool, concVars>>

AcquireRecord(p) == Record(p) /\ UNCHANGED <<cacheVars, rq, tool, concVars>>

AcquireReturn(p) == Return(p) /\ UNCHANGED <<cacheVars, rq, tool, concVars>>

\* the monotonic clock advances by 500 ms
ClockTick ==
    /\ clk < MaxTicks * 500
    /\ clk' = clk + 500
    /\ UNCHANGED <<last_call_time, lock, acq, cacheVars, rq, tool, concVars>>

----------------------------------------------------------------------------
(* make_request *)

Statuses == { 200, 404, 429, 500, 502, 503 }

\* status.is_success()
IsSuccess(status) == 200 <= status /\ status <= 299

\* what http_client.send(request).await can yield: Err, or a response with a
\* status and a body that parses as JSON or not
Outcomes ==
    { [transport |-> FALSE, status |-> s, json |-> FALSE] : s \in Statuses }
        \cup { [transport |-> FALSE, status |-> s, json |-> TRUE] :
                   s \in { x \in Statuses : IsSuccess(x) } }
        \cup { [transport |-> TRUE, status |-> 0, json |-> FALSE] }

NoResponse == [transport |-> FALSE, status |-> 0, json |-> FALSE]

\* mutant: 404 is retried like 429
IsRetryableStatus_With404(status) == status \in {429, 503, 502, 404}

\* mutant: 500 is retried like 503
IsRetryableStatus_With500(status) == status \in {429, 503, 502, 500}

\* status == 429 || status == 503 || status == 502
IsRetryableStatus(status) == status \in {429, 503, 502}

IdleRq ==
    [pc |-> "idle", endpoint |-> "", attempts |-> 0, retry_delay |-> 0, wake |-> 0,
     started |-> 0,
     response |-> NoResponse, result |-> "none", waited |-> <<>>, retried |-> {}]

\* make_request is called: rate_limiter.acquire(endpoint).await?
RequestCall(e) ==
    /\ rq.pc = "idle"
    /\ rq.result = "none"
    /\ rq' = [IdleRq EXCEPT !.pc = "acquire", !.endpoint = e]
    /\ Call(1, e)
    /\ UNCHANGED <<cacheVars, tool, concVars>>

\* inside acquire: the lock is granted
RequestLock == rq.pc = "acquire" /\ Lock(1) /\ UNCHANGED <<cacheVars, rq, tool, concVars>>

\* inside acquire: the timestamp is recorded and the lock released
RequestRecord == rq.pc = "acquire" /\ Record(1) /\ UNCHANGED <<cacheVars, rq, tool, concVars>>

\* acquire returned: max_retries, retry_delay and attempts are initialised
RequestAcquired ==
    /\ rq.pc = "acquire"
    /\ Return(1)
    /\ rq' = [rq EXCEPT !.pc = "send", !.retry_delay = InitialRetryDelay,
                         !.started = clk]
    /\ UNCHANGED <<cacheVars, tool, concVars>>

\* top of the loop: attempts += 1 and the request is sent
RequestSend ==
    /\ rq.pc = "send"
    /\ rq' = [rq EXCEPT !.pc = "await", !.attempts = rq.attempts + 1]
    /\ UNCHANGED <<limiterVars, cacheVars, tool, concVars>>

\* mutant: a retryable failure is retried at once and is not counted
RetryOrFail_Forever(r, exhausted) ==
    [r EXCEPT !.pc = "send", !.attempts = 0,
              !.retried = r.retried \cup {exhausted}]

\* mutant: one retry too many
RetryOrFail_OneMore(r, exhausted) ==
    IF r.attempts <= MaxRetries + 1
    THEN [r EXCEPT !.pc = "backoff", !.wake = clk + r.retry_delay,
                   !.retried = r.retried \cup {exhausted}]
    ELSE [r EXCEPT !.pc = "done", !.result = exhausted]

\* if attempts <= max_retries { Delay::new(retry_delay).await; ... continue }
\* else return Err(exhausted)
RetryOrFail(r, exhausted) ==
    IF r.attempts <= MaxRetries
    THEN [r EXCEPT !.pc = "backoff", !.wake = clk + r.retry_delay,
                   !.retried = r.retried \cup {exhausted}]
    ELSE [r EXCEPT !.pc = "done", !.result = exhausted]

\* mutant: the two exhaustion errors are exchanged
Handle_KindsExchanged(r) ==
    IF r.response.transport THEN RetryOrFail(r, "rate_limit_exceeded")
    ELSE IF IsSuccess(r.response.status)
         THEN IF r.response.json THEN [r EXCEPT !.pc = "done", !.result = "ok"]
                                 ELSE [r EXCEPT !.pc = "done", !.result = "parse_error"]
    ELSE IF IsRetryableStatus(r.response.status) THEN RetryOrFail(r, "network_error")
    ELSE IF r.response.status = 404 THEN [r EXCEPT !.pc = "done", !.result = "not_found"]
    ELSE [r EXCEPT !.pc = "done", !.result = "http_error"]

\* match response { ... } on the response r.response
Handle(r) ==
    IF r.response.transport THEN RetryOrFail(r, "network_error")
    ELSE IF IsSuccess(r.response.status)
         THEN IF r.response.json THEN [r EXCEPT !.pc = "done", !.result = "ok"]
                                 ELSE [r EXCEPT !.pc = "done", !.result = "parse_error"]
    ELSE IF IsRetryableStatus(r.response.status) THEN RetryOrFail(r, "rate_limit_exceeded")
    ELSE IF r.response.status = 404 THEN [r EXCEPT !.pc = "done", !.result = "not_found"]
    ELSE [r EXCEPT !.pc = "done", !.result = "http_error"]

\* the send completes with outcome o and the match arm runs
RequestRespond(o) ==
    /\ rq.pc = "await"
    /\ rq' = Handle([rq EXCEPT !.response = o])
    /\ UNCHANGED <<limiterVars, cacheVars, tool, concVars>>

\* mutant: the delay is not doubled
RequestBackoffDone_Flat ==
    /\ rq.pc = "backoff"
    /\ clk >= rq.wake
    /\ rq' = [rq EXCEPT !.pc = "send", !.waited = Append(rq.waited, rq.retry_delay)]
    /\ UNCHANGED <<limiterVars, cacheVars, tool, concVars>>

\* mutant: the retry passes through the rate limiter again and records its
\* own timestamp
RequestBackoffDone_Reacquire ==
    /\ rq.pc = "backoff"
    /\ clk >= rq.wake
    /\ rq' = [rq EXCEPT !.pc = "send", !.retry_delay = rq.retry_delay * 2,
                         !.waited = Append(rq.waited, rq.retry_delay)]
    /\ last_call_time' = Insert(last_call_time, rq.endpoint, clk)
    /\ UNCHANGED <<lock, clk, acq, cacheVars, tool, concVars>>

\* the backoff delay is over: retry_delay = retry_delay * 2; continue
RequestBackoffDone ==
    /\ rq.pc = "backoff"
    /\ clk >= rq.wake
    /\ rq' = [rq EXCEPT !.pc = "send", !.retry_delay = rq.retry_delay * 2,
                         !.waited = Append(rq.waited, rq.retry_delay)]
    /\ UNCHANGED <<limiterVars, cacheVars, tool, concVars>>

----------------------------------------------------------------------------
(* Tool operations: ToolExecutor::execute *)

Tools == { "paper_search", "author_details", "paper_details" }

\* the text embedded and used as cache key: the query of paper_search, and
\* "author_details:ID" / "paper_details:ID", which never coincide: odd keys
\* stand for the former, even keys for the latter
ToolTexts(t) ==
    CASE t = "author_details" -> { x \in Texts : x % 2 = 1 }
      [] t = "paper_details"  -> { x \in Texts : x % 2 = 0 }
      [] OTHER                -> Texts

\* the params object built from the arguments
ToolParams == { "p1", "p2" }

\* what embed.embed(text) can return
ToolVecs == { <<1, 0>>, <<4, 1>>, <<3, 1>> }

\* the endpoint handed to make_request
EndpointOf(t, text) ==
    CASE t = "author_details" -> <<"/author/", text>>
      [] t = "paper_details"  -> <<"/paper/", text>>
      [] OTHER                -> <<"/paper/search">>

\* the JSON value make_request returns for the request
ApiResult(t, text, params) == <<"json", t, text, params>>

\* format_search_results / format_author_details / format_paper_details:
\* total, the formatted text of a value
Format(t, value) == <<"text", t, value>>

\* serde_json::from_value::<String>(value) succeeds on a JSON string only
IsString(value) == value[1] = "text"

\* similarity > 0.95, on the represented similarity (0.95^2 = 0.9025)
Above95(s) == s.n * 10000 > 9025 * s.d

\* paper_search: cached_query.action == "paper_search" and
\* cached_query.params == Some(params); the details tools compare neither
Matches(t, row, params) ==
    /\ Above95(row.sim)
    /\ t = "paper_search" => row.q.action = t /\ row.q.params = <<params>>

\* the rows the tool looks at: paper_search iterates over all of them, the
\* details tools look at the first one only
Candidates(t, rows) ==
    IF t = "paper_search" THEN DOMAIN rows
    ELSE IF rows = <<>> THEN {} ELSE {1}

\* index of the row taken as the cache hit, 0 on a miss
HitIndex(t, rows, params) ==
    LET hits == { i \in Candidates(t, rows) : Matches(t, rows[i], params) }
    IN  IF hits = {} THEN 0 ELSE CHOOSE i \in hits : \A j \in hits : i <= j

\* the Query literal handed to cache.store; the literals of the details
\* tools name no action and no params
ToolQuery(t, text, params, emb, upstream) ==
    [action    |-> IF t = "paper_search" THEN t ELSE "",
     text      |-> text,
     params    |-> IF t = "paper_search" THEN <<params>> ELSE <<>>,
     embedding |-> emb,
     results   |-> IF t = "paper_details" THEN upstream ELSE Format(t, upstream)]

\* paper_details: self.cache.store(..)?; the others: if let Err(err) =
\* self.cache.store(query) { log::warn!(..) }
StoreFailurePropagates(t) == t = "paper_details"

NoResult == [ok |-> FALSE, value |-> <<>>, err |-> "none"]

Ok(value) == [ok |-> TRUE, value |-> <<value>>, err |-> "none"]

Err(e) == [ok |-> FALSE, value |-> <<>>, err |-> e]

\* what execute returns on a cache hit on the entry q
HitResult(t, q) ==
    IF t = "paper_details" THEN Ok(Format(t, q.results))
    ELSE IF IsString(q.results) THEN Ok(q.results)
    ELSE Err("json")

\* the errors make_request returns
RequestErrors ==
    { "network_error", "rate_limit_exceeded", "not_found", "http_error", "parse_error" }

IdleTool ==
    [pc |-> "idle", tool |-> "", text |-> 0, params |-> "", embedding |-> <<>>,
     from |-> <<>>, upstream |-> <<>>, stored |-> "none", result |-> NoResult,
     sent |-> 0, n |-> 0]

\* execute is called with valid arguments, for the n-th time
ToolCall(t, text, params) ==
    /\ tool.pc \in { "idle", "done" }
    /\ tool.n < MaxOps
    /\ tool' = [IdleTool EXCEPT !.pc = "embed", !.tool = t, !.text = text,
                                !.params = params, !.n = tool.n + 1]
    /\ UNCHANGED <<cacheVars, limiterVars, rq, concVars>>

\* self.embed.embed(&text).await returned Ok(emb)
ToolEmbedOk(emb) ==
    /\ tool.pc = "embed"
    /\ tool' = [tool EXCEPT !.pc = "search", !.embedding = emb]
    /\ UNCHANGED <<cacheVars, limiterVars, rq, concVars>>

\* self.embed.embed(&text).await? returned Err
ToolEmbedErr ==
    /\ tool.pc = "embed"
    /\ tool' = [tool EXCEPT !.pc = "done", !.result = Err("embed")]
    /\ UNCHANGED <<cacheVars, limiterVars, rq, concVars>>

\* mutant: a cache hit is noted but the operation goes on to fetch upstream
ToolSearchHit_ThenFetch ==
    LET rows == Results(storage, now, tool.embedding)
        i    == HitIndex(tool.tool, rows, tool.params)
    IN  /\ tool.pc = "search"
        /\ i # 0
        /\ storage' = DeleteAll(storage, KeysToPurge(storage, now))
        /\ tool' = [tool EXCEPT !.pc = "request", !.from = <<rows[i].q>>]
        /\ UNCHANGED <<now, call, limiterVars, rq, concVars>>

\* search_similarity returned Ok and a row qualifies: the cached result is
\* returned
ToolSearchHit ==
    LET rows == Results(storage, now, tool.embedding)
        i    == HitIndex(tool.tool, rows, tool.params)
    IN  /\ tool.pc = "search"
        /\ i # 0
        /\ storage' = DeleteAll(storage, KeysToPurge(storage, now))
        /\ tool' = [tool EXCEPT !.pc = "done", !.from = <<rows[i].q>>,
                                !.result = HitResult(tool.tool, rows[i].q)]
        /\ UNCHANGED <<now, call, limiterVars, rq, concVars>>

\* search_similarity returned Ok and no row qualifies
ToolSearchMiss ==
    LET rows == Results(storage, now, tool.embedding)
    IN  /\ tool.pc = "search"
        /\ HitIndex(tool.tool, rows, tool.params) = 0
        /\ storage' = DeleteAll(storage, KeysToPurge(storage, now))
        /\ tool' = [tool EXCEPT !.pc = "request"]
        /\ UNCHANGED <<now, call, limiterVars, rq, concVars>>

\* self.cache.search_similarity(&embedding)? returned Err
ToolSearchErr ==
    /\ tool.pc = "search"
    /\ tool' = [tool EXCEPT !.pc = "done", !.result = Err("search")]
    /\ UNCHANGED <<cacheVars, limiterVars, rq, concVars>>

\* the effect of make_request on the limiter: acquire sleeps for the rest of
\* the interval and records the instant it returns at
Acquired(e) ==
    /\ clk + SleepTime(e) <= MaxTicks * 500
    /\ clk' = clk + SleepTime(e)
    /\ last_call_time' = Insert(last_call_time, e, clk + SleepTime(e))
    /\ UNCHANGED <<lock, acq>>

\* make_request(..).await returned Ok(result)
ToolRequestOk ==
    /\ tool.pc = "request"
    /\ Acquired(EndpointOf(tool.tool, tool.text))
    /\ tool' = [tool EXCEPT !.pc = "store", !.sent = 1,
                   !.upstream = <<ApiResult(tool.tool, tool.text, tool.params)>>]
    /\ UNCHANGED <<cacheVars, rq, concVars>>

\* make_request(..).await? returned Err(e)
ToolRequestErr(e) ==
    /\ tool.pc = "request"
    /\ Acquired(EndpointOf(tool.tool, tool.text))
    /\ tool' = [tool EXCEPT !.pc = "done", !.sent = 1, !.result = Err(e)]
    /\ UNCHANGED <<cacheVars, rq, concVars>>

\* cache.store(query) returned Ok: the formatted upstream result is returned
ToolStoreOk ==
    LET q == ToolQuery(tool.tool, tool.text, tool.params, tool.embedding,
                       tool.upstream[1])
    IN  /\ tool.pc = "store"
        /\ storage' = Put(storage, q.text, [created_at |-> now, value |-> q])
        /\ tool' = [tool EXCEPT !.pc = "done", !.stored = "ok",
                       !.result = Ok(Format(tool.tool, tool.upstream[1]))]
        /\ UNCHANGED <<now, call, limiterVars, rq, concVars>>

\* cache.store(query) returned Err: nothing was written
ToolStoreErr ==
    /\ tool.pc = "store"
    /\ tool' = [tool EXCEPT !.pc = "done", !.stored = "err",
                   !.result = IF StoreFailurePropagates(tool.tool)
                              THEN Err("store")
                              ELSE Ok(Format(tool.tool, tool.upstream[1]))]
    /\ UNCHANGED <<cacheVars, limiterVars, rq, concVars>>

----------------------------------------------------------------------------
(* Specifications *)

\* the cache alone, one caller
InitCache ==
    /\ storage = <<>>
    /\ now = 0
    /\ call = NoCall
    /\ last_call_time = <<>>
    /\ lock = 0
    /\ clk = 0
    /\ acq = [p \in Procs |-> IdleAcq]
    /\ rq = IdleRq
    /\ tool = IdleTool
    /\ task = [t \in Tasks |-> IdleTask]
    /\ writer = ""

NextCache ==
    \/ \E q \in Queries : StoreOk(q)
    \/ \E q \in Queries : StoreErr(q)
    \/ \E emb \in QueryVecs : SearchOk(emb)
    \/ \E emb \in QueryVecs : SearchReadErr(emb)
    \/ \E emb \in QueryVecs : SearchPurgeErr(emb)
    \/ Tick

SpecCache == InitCache /\ [][NextCache]_vars

\* the rate limiter with NumProcs concurrent callers of acquire
InitLimiter ==
    /\ storage = <<>>
    /\ now = 0
    /\ call = NoCall
    /\ last_call_time = <<>>
    /\ lock = 0
    /\ clk = 0
    /\ acq = [p \in Procs |-> IdleAcq]
    /\ rq = IdleRq
    /\ tool = IdleTool
    /\ task = [t \in Tasks |-> IdleTask]
    /\ writer = ""

NextLimiter ==
    \/ \E p \in Procs, e \in Endpoints : AcquireCall(p, e)
    \/ \E p \in Procs : AcquireLock(p)
    \/ \E p \in Procs : AcquireRecord(p)
    \/ \E p \in Procs : AcquireReturn(p)
    \/ ClockTick

SpecLimiter == InitLimiter /\ [][NextLimiter]_vars

\* the time during which acquire is called: the first half of the ticks
CallWindow == (MaxTicks \div 2) * 500

\* a task calls acquire; calls are made during a bounded time only, so that
\* there are finitely many of them
BoundedCall(p, e) == clk < CallWindow /\ AcquireCall(p, e)

\* some task sleeps in its Delay
SleepPending == \E p \in Procs : acq[p].pc = "hold" /\ clk < acq[p].wake

\* time passes, and goes on passing for as long as a Delay is pending
TimePasses ==
    /\ clk < CallWindow \/ SleepPending
    /\ clk' = clk + 500
    /\ UNCHANGED <<last_call_time, lock, acq, cacheVars, rq, tool, concVars>>

NextFairLimiter ==
    \/ \E p \in Procs, e \in Endpoints : BoundedCall(p, e)
    \/ \E p \in Procs : AcquireLock(p)
    \/ \E p \in Procs : AcquireRecord(p)
    \/ \E p \in Procs : AcquireReturn(p)
    \/ TimePasses

\* the limiter under a fair executor: time passes, and every task that can
\* go on (take the free lock, finish its due sleep, return) eventually does.
\* Nothing obliges a task to call acquire.
FairLimiter ==
    /\ InitLimiter /\ [][NextFairLimiter]_vars
    /\ WF_vars(TimePasses)
    /\ \A p \in Procs : /\ WF_vars(AcquireLock(p))
                        /\ WF_vars(AcquireRecord(p))
                        /\ WF_vars(AcquireReturn(p))

\* a Delay of the call is running and not yet due
TimerPending ==
    \/ acq[1].pc = "hold" /\ clk < acq[1].wake
    \/ rq.pc = "backoff" /\ clk < rq.wake

\* time passes before the call is made and while the call sleeps in a Delay;
\* the time taken by the other steps only shifts the instants that follow
RequestTick ==
    /\ TimerPending \/ (rq.pc = "idle" /\ clk < MaxSteps * 100)
    /\ clk' = clk + 100
    /\ UNCHANGED <<last_call_time, lock, acq, cacheVars, rq, tool, concVars>>

\* one make_request call, from acquire to its return; the limiter has no
\* call recorded yet, or an earlier call of one endpoint recorded at time 0
InitRequest ==
    /\ storage = <<>>
    /\ now = 0
    /\ call = NoCall
    /\ last_call_time \in { <<>> } \cup { [x \in {e} |-> 0] : e \in Endpoints }
    /\ lock = 0
    /\ clk = 0
    /\ acq = [p \in Procs |-> IdleAcq]
    /\ rq = IdleRq
    /\ tool = IdleTool
    /\ task = [t \in Tasks |-> IdleTask]
    /\ writer = ""

NextRequest ==
    \/ \E e \in Endpoints : RequestCall(e)
    \/ RequestLock
    \/ RequestRecord
    \/ RequestAcquired
    \/ RequestSend
    \/ \E o \in Outcomes : RequestRespond(o)
    \/ RequestBackoffDone
    \/ RequestTick

SpecRequest == InitRequest /\ [][NextRequest]_vars

\* make_request under an executor that polls the task whenever it can run:
\* the loop body runs, every send returns (with some outcome), a Delay that
\* is due completes, and time passes while a Delay is pending. Nothing is
\* assumed about which outcome a send has, nor about the call being made.
FairRequest ==
    /\ SpecRequest
    /\ WF_vars(RequestSend)
    /\ WF_vars(\E o \in Outcomes : RequestRespond(o))
    /\ WF_vars(RequestBackoffDone)
    /\ WF_vars(RequestTick)

\* the tables that stores made at time 0 leave: any set of keys, each with
\* the Query of embedding <<1, 0>>
ConcStorages ==
    { [k \in ks |-> [created_at |-> 0, value |-> Query(k, <<1, 0>>)]] :
          ks \in SUBSET Texts }

\* one call of each task, in every interleaving of their steps
InitConc ==
    /\ storage \in ConcStorages
    /\ now = 0
    /\ call = NoCall
    /\ last_call_time = <<>>
    /\ lock = 0
    /\ clk = 0
    /\ acq = [p \in Procs |-> IdleAcq]
    /\ rq = IdleRq
    /\ tool = IdleTool
    /\ task = [t \in Tasks |-> IdleTask]
    /\ writer = ""

NextConc ==
    \/ \E t \in Searchers, emb \in ConcSearchVecs : ReadTxn(t, emb)
    \/ \E t \in Searchers, emb \in ConcSearchVecs : ReadTxnErr(t, emb)
    \/ \E t \in Searchers : Scan(t)
    \/ \E t \in Searchers : ScanErr(t)
    \/ \E t \in Searchers : PurgeTxn(t)
    \/ \E t \in Searchers : PurgeTxnErr(t)
    \/ \E t \in Searchers : PurgeCommit(t)
    \/ \E t \in Searchers : PurgeAbort(t)
    \/ \E t \in Storers, q \in ConcQueries : WriteTxn(t, q)
    \/ \E t \in Storers, q \in ConcQueries : WriteTxnErr(t, q)
    \/ \E t \in Storers : StorePut(t)
    \/ \E t \in Storers : StorePutErr(t)
    \/ \E t \in Storers : StoreCommit(t)
    \/ \E t \in Storers : StoreCommitErr(t)
    \/ ConcTick

SpecConc == InitConc /\ [][NextConc]_vars

\* the vectors of 1 or 2 components in -MaxComp..MaxComp
CosineVecs == UNION { [1..n -> -MaxComp..MaxComp] : n \in {1, 2} }

\* the cosine on its own: one key, stored and searched with every vector
InitCosine ==
    /\ storage = <<>>
    /\ now = 0
    /\ call = NoCall
    /\ last_call_time = <<>>
    /\ lock = 0
    /\ clk = 0
    /\ acq = [p \in Procs |-> IdleAcq]
    /\ rq = IdleRq
    /\ tool = IdleTool
    /\ task = [t \in Tasks |-> IdleTask]
    /\ writer = ""

NextCosine ==
    \/ \E v \in CosineVecs : StoreOk(Query(1, v))
    \/ \E emb \in CosineVecs : SearchOk(emb)

SpecCosine == InitCosine /\ [][NextCosine]_vars

\* embeddings of lengths 0 to 3, some all zero on a prefix of another
PrefixVecs == {<<>>, <<1>>, <<0, 1>>, <<1, 1>>, <<-1, 0, 1>>, <<0, 0, 1>>}

\* stored and searched embeddings of different lengths: one key, every
\* vector of PrefixVecs stored and searched, while the clock advances
InitPrefix ==
    /\ storage = <<>>
    /\ now = 0
    /\ call = NoCall
    /\ last_call_time = <<>>
    /\ lock = 0
    /\ clk = 0
    /\ acq = [p \in Procs |-> IdleAcq]
    /\ rq = IdleRq
    /\ tool = IdleTool
    /\ task = [t \in Tasks |-> IdleTask]
    /\ writer = ""

NextPrefix ==
    \/ \E v \in PrefixVecs : StoreOk(Query(1, v))
    \/ \E emb \in PrefixVecs : SearchOk(emb)
    \/ Tick

SpecPrefix == InitPrefix /\ [][NextPrefix]_vars

\* tool operations, one after the other as the server runs them, on an
\* initially empty cache
InitTool ==
    /\ storage = <<>>
    /\ now = 0
    /\ call = NoCall
    /\ last_call_time = <<>>
    /\ lock = 0
    /\ clk = 0
    /\ acq = [p \in Procs |-> IdleAcq]
    /\ rq = IdleRq
    /\ tool = IdleTool
    /\ task = [t \in Tasks |-> IdleTask]
    /\ writer = ""

NextTool ==
    \/ \E t \in Tools : \E text \in ToolTexts(t), params \in ToolParams :
           ToolCall(t, text, params)
    \/ \E emb \in ToolVecs : ToolEmbedOk(emb)
    \/ ToolEmbedErr
    \/ ToolSearchHit
    \/ ToolSearchMiss
    \/ ToolSearchErr
    \/ ToolRequestOk
    \/ \E e \in RequestErrors : ToolRequestErr(e)
    \/ ToolStoreOk
    \/ ToolStoreErr

SpecTool == InitTool /\ [][NextTool]_vars

----------------------------------------------------------------------------
(* Properties of LocalCache, checked under SpecCache *)

\* the step is a search_similarity call that returned Ok
SearchOkStep == call'.op = "search" /\ call'.ok /\ now' = now

\* the step is a store call that returned Ok
StoreOkStep == call'.op = "store" /\ call'.ok /\ now' = now
                   /\ (call' # call \/ storage' # storage)

\* v has a nonzero component among its first n
NonZeroPrefix(v, n) == \E i \in 1..Min(n, Len(v)) : v[i] # 0

\* entry e is live at time t
Live(e, t) == t - e.created_at <= TTL

\* the keys a search for emb at time t over st must return a row for
RowKeys(st, t, emb) ==
    { k \in DOMAIN st :
        /\ Live(st[k], t)
        /\ NonZeroPrefix(st[k].value.embedding, Len(emb))
        /\ NonZeroPrefix(emb, Len(st[k].value.embedding)) }

RowTexts(rows) == { rows[i].q.text : i \in 1..Len(rows) }

\* C1: search_similarity returns exactly one row for each entry that is live
\* at scan time and has nonzero magnitude against the query, no row for any
\* other entry, and the rows are in non-increasing order of similarity.
C1_RowsExactAndSorted ==
    [][SearchOkStep =>
        LET rows == call'.rows
            keys == RowKeys(storage, now, call'.emb)
        IN  /\ Len(rows) = Cardinality(keys)
            /\ RowTexts(rows) = keys
            /\ \A i \in 1..Len(rows) : rows[i].q = storage[rows[i].q.text].value
            /\ \A i, j \in 1..Len(rows) :
                   i < j => rows[i].sim.n * rows[j].sim.d >= rows[j].sim.n * rows[i].sim.d
    ]_vars

\* a search returned two rows of different similarity
C1_Witness ==
    /\ call.op = "search" /\ call.ok
    /\ Len(call.rows) >= 2
    /\ call.rows[1].sim # call.rows[2].sim

\* C2: when search_similarity returns Ok, every entry whose age at scan time
\* exceeded the TTL is absent from the rows and deleted from storage, so
\* that no later search can meet it (a search only reports keys that are in
\* storage); an entry whose age is at most the TTL is not deleted and is not
\* kept out of the rows by its age.
C2_ExpiredPurgedLiveKept ==
    [][SearchOkStep =>
        /\ \A k \in DOMAIN storage :
              IF now - storage[k].created_at > TTL
              THEN /\ k \notin RowTexts(call'.rows)
                   /\ k \notin DOMAIN storage'
              ELSE /\ k \in DOMAIN storage'
                   /\ storage'[k] = storage[k]
                   /\ (k \in RowKeys(storage, now, call'.emb)
                          => k \in RowTexts(call'.rows))
        /\ RowTexts(call'.rows) \cup call'.purged \subseteq DOMAIN storage
    ]_vars

\* a search returned Ok after purging an expired entry and keeping an entry
\* whose age equals the TTL
C2_Witness ==
    /\ call.op = "search" /\ call.ok
    /\ call.purged # {}
    /\ \E k \in DOMAIN storage : now - storage[k].created_at = TTL
    /\ call.rows # <<>>

\* C3: storage holds at most one entry per text key and that entry is the
\* Query of the most recent store with that text: a committed store replaces
\* the whole entry under its text, nothing but a committed store of that text
\* changes an entry that stays in storage, and a search returns one row per
\* text, carrying the Query now stored under it.
C3_LastWriteWins ==
    [][/\ StoreOkStep =>
              LET q == call'.q[1]
              IN  /\ q.text \in DOMAIN storage'
                  /\ storage'[q.text].value = q
                  /\ storage'[q.text].created_at = now
       /\ \A k \in DOMAIN storage \cap DOMAIN storage' :
              /\ storage'[k].value.text = k
              /\ storage'[k] # storage[k] => StoreOkStep /\ call'.q[1].text = k
       /\ SearchOkStep =>
              /\ \A i, j \in 1..Len(call'.rows) :
                     call'.rows[i].q.text = call'.rows[j].q.text => i = j
              /\ \A i \in 1..Len(call'.rows) :
                     call'.rows[i].q = storage[call'.rows[i].q.text].value
    ]_vars

\* a store has replaced an entry holding a different Query under the same text
C3_Witness ==
    /\ call.op = "store" /\ call.ok /\ call.over
    /\ storage[call.q[1].text].value = call.q[1]

\* the step is a search for exactly the embedding E of the Query q that the
\* preceding call stored, made while q's entry has age 0
SearchRightAfterStore ==
    /\ call.op = "store" /\ call.ok
    /\ \E i \in 1..Len(call.q[1].embedding) : call.q[1].embedding[i] # 0
    /\ storage[call.q[1].text].created_at = now
    /\ SearchOkStep
    /\ call'.emb = call.q[1].embedding

\* C4 as stated: storing a Query with nonzero embedding E and then immediately
\* calling search_similarity(E) returns that entry as the first row, with
\* similarity 1.
C4_StoredEntryFirst ==
    [][SearchRightAfterStore =>
        /\ call'.rows # <<>>
        /\ call'.rows[1].q = call.q[1]
        /\ call'.rows[1].sim = SimOne
    ]_vars

\* C4 amended: the stored entry is returned with similarity 1, no row has a
\* greater similarity, and every row placed before it also has similarity 1
\* and a smaller key (ties keep key order).
C4_StoredEntryAmongBest ==
    [][SearchRightAfterStore =>
        LET rows == call'.rows
        IN  \E i \in 1..Len(rows) :
                /\ rows[i].q = call.q[1]
                /\ rows[i].sim = SimOne
                /\ \A j \in 1..Len(rows) : rows[j].sim.n <= rows[j].sim.d
                /\ \A j \in 1..(i - 1) :
                       rows[j].sim = SimOne /\ rows[j].q.text < rows[i].q.text
    ]_vars

\* a search for E right after store(E) returned the stored entry second,
\* behind another entry of similarity 1, and a row of lower similarity is
\* not possible before it
C4_Witness ==
    /\ call.op = "search" /\ call.ok
    /\ call.after # <<>>
    /\ Len(call.rows) >= 2
    /\ call.rows[2].q = call.after[1]
    /\ call.rows[1].sim = SimOne /\ call.rows[2].sim = SimOne

\* C5: two search_similarity calls with the same embedding, with no store
\* between them and no entry crossing the TTL boundary between them, return
\* identical ranked lists and leave storage identical.
C5_RepeatedSearchIdempotent ==
    [][(/\ call.op = "search" /\ call.ok
        /\ SearchOkStep
        /\ call'.emb = call.emb
        /\ \A k \in DOMAIN storage : now - storage[k].created_at <= TTL)
       => /\ call'.rows = call.rows
          /\ storage' = storage
    ]_vars

\* the same embedding was searched twice in a row, the second search purged
\* nothing and returned rows
C5_Witness ==
    /\ call.op = "search" /\ call.ok
    /\ call.seq = 2
    /\ call.purged = {}
    /\ call.rows # <<>>

\* v has magnitude 0: no component, or every component 0
ZeroMagnitude(v) == \A i \in 1..Len(v) : v[i] = 0

\* C16: search_similarity never emits a row whose similarity comes from a
\* zero magnitude: every row has both magnitudes positive, an entry is left
\* out of the rows whenever its stored embedding or the query embedding has
\* magnitude 0, the call still returns Ok, and such an entry, when live, is
\* still in storage, unchanged, after the call.
C16_ZeroMagnitudeExcluded ==
    [][SearchOkStep =>
        LET rows == call'.rows
            emb  == call'.emb
        IN  /\ \A i \in 1..Len(rows) :
                   /\ BothNonZero(rows[i].q.embedding, emb)
                   /\ rows[i].sim.d > 0
                   /\ ~ZeroMagnitude(rows[i].q.embedding)
            /\ ZeroMagnitude(emb) => rows = <<>>
            /\ \A k \in Present(storage) :
                   (ZeroMagnitude(storage[k].value.embedding) \/ ZeroMagnitude(emb)) =>
                       /\ k \notin RowTexts(rows)
                       /\ Live(storage[k], now) =>
                              k \in Present(storage') /\ storage'[k] = storage[k]
    ]_vars

\* a search returned a row for one live entry and none for another live
\* entry, whose embedding is the zero vector and which is still stored
C16_Witness ==
    /\ call.op = "search" /\ call.ok
    /\ call.rows # <<>>
    /\ \E k \in Present(storage) :
           /\ ZeroMagnitude(storage[k].value.embedding)
           /\ Live(storage[k], now)
           /\ k \notin RowTexts(call.rows)

\* C17: for all vectors a (stored) and b (searched) with nonzero magnitudes,
\* the cosine similarity search_similarity computes lies in [-1, 1]:
\* dot(a, b)^2 <= (sum a_i^2) * (sum b_i^2), so the represented similarity
\* n/d has d > 0 and -d <= n <= d. Checked under SpecCosine.
C17_CosineInRange ==
    /\ (call.op = "search" /\ call.ok) =>
           \A i \in 1..Len(call.rows) :
               LET a == call.rows[i].q.embedding
                   b == call.emb
               IN  /\ call.rows[i].sim = Similarity(a, b)
                   /\ call.rows[i].sim.d > 0
                   /\ -call.rows[i].sim.d <= call.rows[i].sim.n
                   /\ call.rows[i].sim.n <= call.rows[i].sim.d
                   /\ DotProduct(a, b) * DotProduct(a, b)
                          <= QueryMagnitude2(a, b) * EmbeddingMagnitude2(a, b)

\* a search with a vector opposite to the stored one, and not equal to it,
\* returned similarity -1
C17_Witness ==
    /\ call.op = "search" /\ call.ok
    /\ call.rows # <<>>
    /\ call.rows[1].sim = [n |-> -1, d |-> 1]
    /\ call.rows[1].q.embedding # call.emb
    /\ \E i \in 1..Len(call.emb) : call.emb[i] = MaxComp

\* C21: a failure of the purge write transaction of search_similarity (opening
\* it, a delete, or its commit) makes the call return that error, with no
\* rows, and leaves storage exactly as the scan saw it; the expired keys are
\* therefore still stored, and the next search that returns Ok collects and
\* purges exactly the keys that are expired in that unchanged storage.
C21_FailedPurgeKeepsStorage ==
    [][ /\ (call'.op = "search" /\ call'.err = "purge" /\ now' = now) =>
               /\ ~call'.ok
               /\ call'.rows = <<>>
               /\ storage' = storage
               /\ KeysToPurge(storage', now') # {}
        /\ (call.op = "search" /\ call.err = "purge" /\ SearchOkStep) =>
               /\ call'.purged = KeysToPurge(storage, now)
               /\ call'.purged # {}
               /\ storage' = DeleteAll(storage, call'.purged)
               /\ \A k \in call'.purged : k \notin Present(storage') ]_vars

\* a search failed in its purge and the expired entries are still stored
C21_Witness ==
    /\ call.op = "search" /\ ~call.ok /\ call.err = "purge"
    /\ \E k \in Present(storage) : Expired(storage[k], now)

\* C26: an entry's created_at is the time of the store that wrote it and is
\* never changed afterwards: a search (scan and purge) and a failed call
\* change no field of an entry that stays in storage and add no entry; the
\* only step that changes the entry under a text, or adds one, is a
\* committed store of that text, which puts the stored Query with created_at
\* equal to the time of that store.
C26_CreatedAtImmutable ==
    [][ /\ \A k \in Present(storage') :
               (k \notin Present(storage) \/ storage'[k] # storage[k]) =>
                   /\ StoreOkStep
                   /\ call'.q[1].text = k
                   /\ storage'[k] = [created_at |-> now, value |-> call'.q[1]]
        /\ (call'.op = "search" /\ now' = now) =>
               /\ Present(storage') \subseteq Present(storage)
               /\ \A k \in Present(storage') : storage'[k] = storage[k]
        /\ now' # now => storage' = storage ]_vars

\* an Ok search returned a row for an entry written before the current time,
\* and the entry is still stored with that earlier created_at
C26_Witness ==
    /\ call.op = "search" /\ call.ok
    /\ \E i \in 1..Len(call.rows) :
           LET k == call.rows[i].q.text
           IN  /\ k \in Present(storage)
               /\ storage[k].created_at < now
               /\ storage[k].value = call.rows[i].q

\* C29: store changes only the entry under query.text: every entry stored
\* under another text, expired ones included, is still stored and unchanged
\* after the call, and no entry under another text appears; a failed store
\* changes nothing. Expired entries therefore stay until a search purges them.
C29_StoreTouchesOneKey ==
    [][ (call'.op = "store" /\ now' = now) =>
            /\ \A k \in Present(storage) :
                   k # call'.q[1].text =>
                       k \in Present(storage') /\ storage'[k] = storage[k]
            /\ Present(storage') \subseteq Present(storage) \cup {call'.q[1].text}
            /\ KeysToPurge(storage, now) \ {call'.q[1].text}
                   \subseteq KeysToPurge(storage', now')
            /\ ~call'.ok => storage' = storage ]_vars

\* a store has committed while an expired entry under another text is stored
C29_Witness ==
    /\ call.op = "store" /\ call.ok
    /\ call.q[1].text \in Present(storage)
    /\ storage[call.q[1].text].created_at = now
    /\ \E k \in Present(storage) :
           k # call.q[1].text /\ Expired(storage[k], now)

\* the first n components of v
Prefix(v, n) == SubSeq(v, 1, Min(n, Len(v)))

\* C27: a stored embedding and a searched embedding of different lengths
\* never make search_similarity return an error: the similarity of a live
\* entry is the cosine of the two vectors cut to their first min(len, len)
\* components; the entry gets no row when either vector is all zero on that
\* shared prefix; and an empty searched embedding gives an empty result while
\* the expired entries are purged all the same. Checked under SpecPrefix.
C27_LengthMismatchUsesPrefix ==
    [][ (call'.op = "search" /\ now' = now) =>
            LET emb  == call'.emb
                rows == call'.rows
            IN  /\ call'.ok
                /\ \A k \in Present(storage) :
                       LET e == storage[k].value.embedding
                           m == Min(Len(e), Len(emb))
                       IN  IF /\ Live(storage[k], now)
                              /\ NonZeroPrefix(e, m)
                              /\ NonZeroPrefix(emb, m)
                           THEN \E i \in 1..Len(rows) :
                                    /\ rows[i].q = storage[k].value
                                    /\ rows[i].sim = Similarity(Prefix(e, m), Prefix(emb, m))
                                    /\ rows[i].sim.d > 0
                           ELSE k \notin RowTexts(rows)
                /\ emb = <<>> => rows = <<>>
                /\ call'.purged = KeysToPurge(storage, now)
                /\ storage' = DeleteAll(storage, KeysToPurge(storage, now)) ]_vars

\* a search with an embedding shorter or longer than the stored one returned
\* a row for it
C27_Witness ==
    /\ call.op = "search" /\ call.ok
    /\ call.rows # <<>>
    /\ Len(call.rows[1].q.embedding) # Len(call.emb)
    /\ call.rows[1].sim.n # 0

----------------------------------------------------------------------------
(* Properties of the concurrent cache calls, checked under SpecConc *)

\* the step is the end of task t's purge transaction without a failure of
\* the environment
PurgeEnds(t) == task[t].pc = "delete" /\ task'[t].pc = "done" /\ task'[t].ret # "io"

\* C11: when two concurrent search_similarity calls have collected the same
\* expired key, both purges complete without error: deleting a key that is
\* already absent is a no-op, the call returns Ok, and every key of the purge
\* list is absent when the purge ends.
C11_DoublePurgeHarmless ==
    [][\A t \in Searchers :
        PurgeEnds(t) =>
            /\ task'[t].ret = "ok"
            /\ \A k \in task[t].keys : k \notin Present(storage')
            /\ \A k \in Present(storage) \ task[t].keys :
                   k \in Present(storage') /\ storage'[k] = storage[k]
            /\ task[t].keys \cap Present(storage) = {} => storage' = storage
    ]_vars

\* both searches collected the same key, one purge deleted it, the other
\* found it absent, and both returned Ok
C11_Witness ==
    \E t, u \in Searchers :
        /\ t # u
        /\ task[t].ret = "ok" /\ task[u].ret = "ok"
        /\ task[t].keys # {} /\ task[t].keys = task[u].keys
        /\ task[t].deleted = task[t].keys
        /\ task[u].deleted = {}
        /\ task[t].keys \cap Present(storage) = {}

\* C12: the rows of a search_similarity call are computed from the storage
\* content as it was when the call's read transaction started: what a store
\* or a purge commits after that start adds, removes or changes no row.
C12_RowsFromSnapshot ==
    [][\A t \in Searchers :
        /\ (task[t].pc = "idle" /\ task'[t].pc = "scan") => task'[t].snap = storage
        /\ (task[t].pc = "scan" /\ task'[t].pc # "scan") => task'[t].snap = <<>>
        /\ (task[t].pc = "scan" /\ task'[t].pc = "scan") => task'[t].snap = task[t].snap
        /\ (task[t].pc = "scan" /\ task'[t].pc # "scan" /\ task'[t].ret # "io") =>
               /\ task'[t].rows = Results(task[t].snap, now, task[t].emb)
               /\ task'[t].keys = KeysToPurge(task[t].snap, now)
        /\ (task[t].pc \in {"purge", "delete", "done"}) => task'[t].rows = task[t].rows
    ]_vars

\* a search returned Ok with a row for an entry that a store replaced, after
\* the read transaction started and before the scan ran, by one the row
\* does not show
C12_Witness ==
    \E t \in Searchers, w \in Storers :
        /\ task[t].ret = "ok" /\ task[t].raced
        /\ task[w].ret = "ok"
        /\ \E i \in 1..Len(task[t].rows) :
               /\ task[t].rows[i].q.text = task[w].q[1].text
               /\ task[t].rows[i].q # task[w].q[1]
        /\ task[t].rows # Results(storage, now, task[t].emb)

\* C18 as stated: every entry that a purge deletes is older than the TTL at
\* the moment it is deleted, so an entry freshly written by store is never
\* removed by the purge of a search_similarity that scanned before the store.
C18_PurgeDeletesOnlyExpired ==
    [][\A k \in Present(storage) \ Present(storage') : Expired(storage[k], now)]_vars

\* a store committed an entry under a key that a search had collected as
\* expired, and the purge of that search then deleted the entry, which is
\* not older than the TTL
C18_Witness ==
    \E t \in Searchers, w \in Storers :
        /\ task[w].ret = "ok"
        /\ ~Expired(task[w].buf[1], now)
        /\ task[t].ret = "ok"
        /\ task[w].q[1].text \in task[t].deleted
        /\ task[w].q[1].text \notin Present(storage)

\* the step is the commit of task t's purge
PurgeCommits(t) == task[t].pc = "delete" /\ task'[t].ret = "ok"

\* C19: in a search_similarity call the purge runs in a write transaction
\* of its own, opened only after the call's read transaction has ended and
\* only when the scan collected at least one expired key, and its commit
\* deletes exactly the keys collected by that scan and no other key; a
\* search changes storage in no other step.
C19_PurgeInOwnTransaction ==
    [][\A t \in Searchers :
        /\ task'[t].rtxn <=> task'[t].pc = "scan"
        /\ task'[t].pc \in {"purge", "delete"} => ~task'[t].rtxn /\ task'[t].keys # {}
        /\ writer' = t => task'[t].pc = "delete"
        /\ task'[t].pc = "delete" => writer' = t
        /\ (task[t].pc = "scan" /\ task'[t].pc = "done" /\ task'[t].ret = "ok") =>
               task'[t].keys = {} /\ storage' = storage
        /\ (task[t].pc \in {"purge", "delete"}) => task'[t].keys = task[t].keys
        /\ PurgeCommits(t) =>
               /\ Present(storage') = Present(storage) \ task[t].keys
               /\ \A k \in Present(storage') : storage'[k] = storage[k]
               /\ task'[t].deleted = Present(storage) \ Present(storage')
        /\ (task'[t] # task[t] /\ ~PurgeCommits(t)) => storage' = storage
    ]_vars

\* a purge deleted the one key its scan had collected and left the other
\* entries of the table in place
C19_Witness ==
    \E t \in Searchers :
        /\ task[t].ret = "ok"
        /\ task[t].keys # {}
        /\ task[t].deleted = task[t].keys
        /\ Present(storage) # {}
        /\ Present(storage) \cap task[t].keys = {}

\* the step is a store of task t returning Err
StoreFails(t) == task[t].ret = "none" /\ task'[t].ret = "io"

\* the step is the commit of task t's store
StoreCommits(t) == task[t].pc = "commit" /\ task'[t].ret = "ok"

\* C20: store is atomic: when opening the write transaction, the put or the
\* commit fails, store returns the error and storage is exactly as it was
\* before the call; storage changes in the commit step only, to the table
\* with the whole entry put under its key, so that no read transaction sees
\* a partial write.
C20_StoreAtomic ==
    [][\A t \in Storers :
        /\ StoreFails(t) => storage' = storage /\ writer' # t
        /\ (writer = t /\ ~StoreCommits(t)) => storage' = storage
        /\ StoreCommits(t) =>
               storage' = Put(storage, task[t].q[1].text,
                              [created_at |-> task[t].buf[1].created_at,
                               value |-> task[t].q[1]])
        /\ \A r \in Searchers :
               (task[r].pc = "idle" /\ task'[r].pc = "scan") =>
                   \A k \in Present(task'[r].snap) :
                       /\ task'[r].snap[k].value.text = k
                       /\ task'[r].snap[k].value \in ConcQueries
    ]_vars

\* the commit of a store failed after its put, store returned the error and
\* the entry it had put is not in storage
C20_Witness ==
    \E t \in Storers :
        /\ task[t].ret = "io"
        /\ task[t].buf # <<>>
        /\ (task[t].q[1].text \notin Present(storage)
               \/ storage[task[t].q[1].text] # task[t].buf[1])

----------------------------------------------------------------------------
(* Properties of make_request, checked under SpecRequest *)

RECURSIVE SeqSum(_)
SeqSum(q) == IF q = <<>> THEN 0 ELSE q[1] + SeqSum(Tail(q))

Retryable(o) == o.transport \/ o.status \in {429, 502, 503}

ExhaustedErrors == { "network_error", "rate_limit_exceeded" }

\* C6: whatever mix of transport failures and 429/502/503 responses the
\* attempts meet, make_request sends at most 1 + 5 requests, the delay before
\* the k-th retry is 100 ms * 2^(k-1), and the call returns an error when the
\* sixth attempt fails too, and not before.
C6_BoundedRetriesWithBackoff ==
    /\ rq.attempts <= 6
    /\ Len(rq.waited) <= 5
    /\ \A k \in 1..Len(rq.waited) : rq.waited[k] = 100 * 2^(k - 1)
    /\ rq.pc = "backoff" =>
           /\ rq.attempts <= 5
           /\ Retryable(rq.response)
           /\ rq.retry_delay = 100 * 2^(rq.attempts - 1)
           /\ Len(rq.waited) = rq.attempts - 1
    /\ rq.pc \in {"send", "await"} => Len(rq.waited) = rq.attempts - (IF rq.pc = "send" THEN 0 ELSE 1)
    /\ (rq.pc \in {"backoff", "done"} /\ rq.attempts = 6 /\ Retryable(rq.response)) =>
           rq.pc = "done" /\ rq.result \in ExhaustedErrors
    /\ rq.result \in ExhaustedErrors =>
           rq.pc = "done" /\ rq.attempts = 6 /\ Len(rq.waited) = 5 /\ Retryable(rq.response)

\* the call gave up after six failed attempts of both kinds
C6_Witness ==
    /\ rq.pc = "done" /\ rq.result \in ExhaustedErrors
    /\ rq.attempts = 6
    /\ rq.waited = <<100, 200, 400, 800, 1600>>
    /\ rq.retried = ExhaustedErrors

\* C7: when attempt k (1 <= k <= 6) succeeds with a parseable body after k-1
\* retryable failures, make_request returns Ok after exactly k sends and after
\* k-1 backoff delays whose sum is 100 + 200 + ... = 100 * (2^(k-1) - 1) ms,
\* all of which has elapsed since the first send.
C7_SuccessAfterRetries ==
    /\ (rq.pc \in {"backoff", "done"} /\ ~rq.response.transport
          /\ IsSuccess(rq.response.status) /\ rq.response.json)
         => rq.pc = "done" /\ rq.result = "ok"
    /\ rq.result = "ok" =>
           /\ rq.pc = "done"
           /\ ~rq.response.transport /\ IsSuccess(rq.response.status) /\ rq.response.json
           /\ rq.attempts \in 1..6
           /\ Len(rq.waited) = rq.attempts - 1
           /\ SeqSum(rq.waited) = 100 * (2^(rq.attempts - 1) - 1)
           /\ clk - rq.started >= SeqSum(rq.waited)
           /\ rq.attempts = 3 => clk - rq.started >= 100 + 200

\* the third attempt succeeded after a transport failure and a status failure
C7_Witness ==
    /\ rq.pc = "done" /\ rq.result = "ok"
    /\ rq.attempts = 3
    /\ rq.waited = <<100, 200>>
    /\ rq.retried = ExhaustedErrors

\* C8: a 404 response ends make_request with a not-found error on the attempt
\* that received it: no backoff is started, nothing more is sent, and when it
\* answers the first send no retry was made.
C8_NotFoundIsTerminal ==
    (rq.pc \in {"backoff", "done"} /\ ~rq.response.transport /\ rq.response.status = 404)
      => /\ rq.pc = "done"
         /\ rq.result = "not_found"
         /\ Len(rq.waited) = rq.attempts - 1
         /\ rq.attempts = 1 => rq.waited = <<>> /\ clk = rq.started
         /\ ~ENABLED RequestSend
         /\ ~ENABLED RequestBackoffDone

\* the first response was a 404
C8_Witness ==
    /\ rq.pc = "done" /\ rq.result = "not_found"
    /\ rq.attempts = 1

\* the match arm has run on the response of the last send
Handled == rq.pc \in {"backoff", "done"}

\* the call has returned on the attempt that got rq.response: nothing was
\* waited for after it and nothing more can be sent
ReturnedAtOnce ==
    /\ rq.pc = "done"
    /\ Len(rq.waited) = rq.attempts - 1
    /\ ~ENABLED RequestSend
    /\ ~ENABLED RequestBackoffDone
    /\ ~ENABLED RequestTick

\* C14: every attempt outcome other than a transport failure or a status
\* 429/502/503 ends make_request on that attempt, with no backoff delay and
\* no further send: a non-success status other than 404/429/502/503 gives the
\* generic HTTP error, a success status with an unparseable body gives the
\* parse error.
C14_OtherOutcomesAreTerminal ==
    /\ (Handled /\ ~Retryable(rq.response)) => ReturnedAtOnce
    /\ (Handled /\ ~rq.response.transport /\ ~IsSuccess(rq.response.status)
           /\ rq.response.status \notin {404, 429, 502, 503})
          => ReturnedAtOnce /\ rq.result = "http_error"
    /\ (Handled /\ ~rq.response.transport /\ IsSuccess(rq.response.status)
           /\ ~rq.response.json)
          => ReturnedAtOnce /\ rq.result = "parse_error"
    /\ rq.result = "http_error" =>
           ~rq.response.transport /\ ~IsSuccess(rq.response.status)
               /\ rq.response.status \notin {404, 429, 502, 503}
    /\ rq.result = "parse_error" =>
           ~rq.response.transport /\ IsSuccess(rq.response.status) /\ ~rq.response.json

\* the second attempt, after one retry, got a status 500 and the call
\* returned the generic HTTP error
C14_Witness ==
    /\ rq.pc = "done" /\ rq.result = "http_error"
    /\ rq.response.status = 500
    /\ rq.attempts = 2 /\ rq.waited = <<100>>

\* the retry budget is used up: the sixth attempt failed in a retryable way
Exhausted == Handled /\ rq.attempts = 6 /\ Retryable(rq.response)

\* C15: when make_request exhausts its retry budget the error it returns
\* follows the failure of the last attempt: the network error for a
\* transport failure, the rate-limited/server error for a status
\* 429/502/503, whatever the earlier failures were; nothing else is returned
\* on exhaustion.
C15_ExhaustionErrorKind ==
    /\ Exhausted =>
           /\ rq.pc = "done"
           /\ rq.result = IF rq.response.transport THEN "network_error"
                                                   ELSE "rate_limit_exceeded"
    /\ rq.result = "network_error" => Exhausted /\ rq.response.transport
    /\ rq.result = "rate_limit_exceeded" =>
           Exhausted /\ rq.response.status \in {429, 502, 503}

\* the budget ran out on a transport failure after retries caused by both
\* kinds of failure, and the network error came back
C15_Witness ==
    /\ rq.pc = "done" /\ rq.attempts = 6
    /\ rq.response.transport
    /\ rq.result = "network_error"
    /\ rq.retried = ExhaustedErrors

\* acquire has returned to make_request
PastAcquire == rq.pc \in {"send", "await", "backoff", "done"}

\* C28: make_request calls acquire exactly once, before the first send, and
\* never for a retry: from the return of acquire on, the limiter is not
\* entered again, the timestamp recorded for the endpoint stays the one of
\* that single acquire whatever the number of sends, and a retry is sent as
\* soon as its backoff delay has passed, however short the time since the
\* recorded timestamp.
C28_AcquireOncePerRequest ==
    [][ /\ PastAcquire =>
               /\ UNCHANGED <<last_call_time, lock, acq>>
               /\ acq[1] = IdleAcq /\ lock = 0
               /\ rq.endpoint \in DOMAIN last_call_time
               /\ last_call_time[rq.endpoint] = rq.started
        /\ (last_call_time' # last_call_time \/ acq' # acq) =>
               rq.pc \in {"idle", "acquire"} /\ rq.attempts = 0
        /\ (rq.pc # "acquire" /\ rq'.pc = "acquire") => rq.pc = "idle"
        /\ (rq.pc = "await" /\ rq'.pc = "backoff") =>
               rq'.wake = clk + rq.retry_delay
        /\ (rq.pc = "backoff" /\ clk >= rq.wake) => ENABLED RequestBackoffDone
        /\ (rq.pc = "backoff" /\ rq'.pc = "send") =>
               /\ clk >= rq.wake
               /\ rq'.attempts = rq.attempts ]_vars

\* a retry was sent less than the limiter's interval after the timestamp the
\* single acquire recorded, and that timestamp is still the recorded one
C28_Witness ==
    /\ rq.pc \in {"await", "done"}
    /\ rq.attempts = 2
    /\ rq.waited = <<InitialRetryDelay>>
    /\ last_call_time[rq.endpoint] = rq.started
    /\ clk - rq.started < RateLimit

\* the errors returned at once, without a retry
TerminalErrors == {"parse_error", "not_found", "http_error"}

\* C24: once acquire has returned, and provided every send returns,
\* make_request terminates whatever the sequence of outcomes, and in one of
\* three ways only: success (a success status with a parseable body), a
\* terminal error (unparseable body, 404, other status), or exhaustion of the
\* retry budget (the sixth attempt failed in a retryable way); it never
\* sends more than 1 + max_retries times. Checked under FairRequest.
C24_MakeRequestTerminates ==
    /\ (rq.pc = "send") ~> (rq.pc = "done")
    /\ [](rq.attempts <= MaxRetries + 1)
    /\ [](rq.pc = "done" =>
             \/ /\ rq.result = "ok"
                /\ ~rq.response.transport
                /\ IsSuccess(rq.response.status) /\ rq.response.json
             \/ /\ rq.result \in TerminalErrors
                /\ ~Retryable(rq.response)
             \/ /\ rq.result \in ExhaustedErrors
                /\ Retryable(rq.response)
                /\ rq.attempts = MaxRetries + 1)

\* the call ended with a terminal error on the last attempt of its budget
C24_Witness ==
    /\ rq.pc = "done"
    /\ rq.result \in TerminalErrors
    /\ rq.attempts = MaxRetries + 1
    /\ Len(rq.waited) = MaxRetries

----------------------------------------------------------------------------
(* Properties of RateLimiter, checked under SpecLimiter *)

\* C9: two consecutive completions of acquire for the same endpoint are at
\* least the minimum interval apart, in every interleaving; a call that finds
\* the last completion less than one interval old sleeps until exactly one
\* interval after it, and completes (records the instant) once that is over.
C9_MinimumInterval ==
    [][\A p \in Procs :
        /\ (acq[p].pc = "hold" /\ acq'[p].pc = "done") =>
               LET e == acq[p].endpoint
               IN  /\ last_call_time'[e] = clk
                   /\ e \in DOMAIN last_call_time =>
                          last_call_time'[e] - last_call_time[e] >= RateLimit
        /\ (acq[p].pc = "lock" /\ acq'[p].pc = "hold") =>
               LET e == acq[p].endpoint
               IN  (e \in DOMAIN last_call_time /\ clk - last_call_time[e] < RateLimit)
                       => acq'[p].wake = last_call_time[e] + RateLimit
    ]_vars

\* an acquire that had to sleep has completed exactly when its sleep ended,
\* while another task waits for the lock
C9_Witness ==
    \E p \in Procs :
        /\ acq[p].pc = "done"
        /\ acq[p].sleep_time > 0
        /\ last_call_time[acq[p].endpoint] = acq[p].wake
        /\ \E r \in Procs : acq[r].pc = "lock"

\* the tasks inside the critical section of acquire
Holders == { p \in Procs : acq[p].pc = "hold" }

\* C13: at most one acquire is inside the critical section, and the lock
\* stays held during the sleep: while a task holds the lock (sleeping or
\* not), no other task, whatever its endpoint, can take the lock, record its
\* timestamp or return from the acquire it is waiting in.
C13_LockHeldWhileSleeping ==
    /\ Cardinality(Holders) <= 1
    /\ \A p \in Procs :
           acq[p].pc = "hold" =>
               /\ lock = p
               /\ \A q \in Procs \ {p} :
                      /\ ~ENABLED AcquireLock(q)
                      /\ ~ENABLED AcquireRecord(q)
                      /\ acq[q].pc = "lock" => ~ENABLED AcquireReturn(q)
    /\ lock # 0 => acq[lock].pc = "hold"

\* a task sleeps with the lock held while a task that would not have to
\* sleep, calling for another endpoint, waits for the lock
C13_Witness ==
    \E p, q \in Procs :
        /\ acq[p].pc = "hold" /\ clk < acq[p].wake
        /\ acq[q].pc = "lock"
        /\ acq[q].endpoint # acq[p].endpoint
        /\ SleepTime(acq[q].endpoint) = 0

\* the interval a sleeping acquire of task p enforces: from the endpoint's
\* recorded timestamp to the end of the sleep
EnforcedInterval(p) == acq[p].wake - last_call_time[acq[p].endpoint]

\* task p is inside acquire and had to sleep
Sleeping(p) == acq[p].pc = "hold" /\ acq[p].sleep_time > 0

\* C25: the minimum interval acquire enforces depends on the class of the
\* endpoint: a search-style endpoint such as /paper/search is held to a
\* longer interval than the default one, which applies to the simple lookups
\* such as /author/{id}.
C25_IntervalByEndpointClass ==
    \A p \in Procs :
        Sleeping(p) =>
            /\ acq[p].endpoint = "/author/1" => EnforcedInterval(p) = RateLimit
            /\ acq[p].endpoint = "/paper/search" => EnforcedInterval(p) > RateLimit

\* an acquire for /paper/search sleeps until the default interval after the
\* endpoint's last call, the interval a lookup endpoint gets too
C25_Witness ==
    \E p \in Procs :
        /\ Sleeping(p)
        /\ acq[p].endpoint = "/paper/search"
        /\ EnforcedInterval(p) = RateLimit
        /\ "/author/1" \in DOMAIN last_call_time

\* C30: under fair scheduling and with finitely many calls, every acquire
\* that was called eventually records its timestamp, with the lock released,
\* and returns Ok: no deadlock and no starvation of a waiting task. acquire
\* has no error return; the timestamp recorded for an endpoint never
\* decreases and no endpoint is ever removed from the map. Checked under
\* FairLimiter.
C30_AcquireCompletes ==
    /\ \A p \in Procs :
           /\ (acq[p].pc = "lock") ~>
                  (/\ acq[p].pc = "done"
                   /\ lock # p
                   /\ acq[p].endpoint \in DOMAIN last_call_time)
           /\ (acq[p].pc = "done") ~> (acq[p].pc = "idle")
    /\ [](\A p \in Procs : acq[p].pc \in {"idle", "lock", "hold", "done"})
    /\ [][\A e \in DOMAIN last_call_time :
              /\ e \in DOMAIN last_call_time'
              /\ last_call_time'[e] >= last_call_time[e]]_vars

\* every task has completed an acquire of one endpoint, each after waiting
\* for the lock and sleeping behind the one before it
C30_Witness ==
    /\ \A p \in Procs : acq[p].pc = "done" /\ acq[p].endpoint = "/paper/search"
    /\ \E p \in Procs : acq[p].sleep_time > 0 /\ acq[p].wake = clk
    /\ lock = 0

----------------------------------------------------------------------------
(* Properties of the tool operations, checked under SpecTool *)

\* the operation fetched from upstream and the store that followed failed
StoreFailedAfterFetch ==
    tool.pc = "done" /\ tool.upstream # <<>> /\ tool.stored = "err"

\* C10: in every tool operation, when the upstream fetch succeeds and the
\* cache store that follows fails, the operation returns the upstream
\* result (formatted) to its caller
C10_StoreFailureNotFatal ==
    StoreFailedAfterFetch =>
        tool.result = Ok(Format(tool.tool, tool.upstream[1]))

\* a paper_search whose store failed returned the upstream result
C10_Witness ==
    /\ StoreFailedAfterFetch
    /\ tool.tool = "paper_search"
    /\ tool.result = Ok(Format(tool.tool, tool.upstream[1]))

\* the order of the steps of execute
StepOrder ==
    { <<"idle", "embed">>, <<"done", "embed">>,
      <<"embed", "search">>, <<"embed", "done">>,
      <<"search", "done">>, <<"search", "request">>,
      <<"request", "store">>, <<"request", "done">>,
      <<"store", "done">> }

\* the step puts or replaces an entry of the cache
CacheWritten ==
    \E k \in Present(storage') : k \notin Present(storage) \/ storage'[k] # storage[k]

\* the step passes through the rate limiter or sends upstream
UpstreamTouched ==
    last_call_time' # last_call_time \/ clk' # clk \/ tool'.sent > tool.sent

\* C22: a cache-aware operation runs embed, then search_similarity, then
\* (only on a miss) make_request, then store. On a hit it returns the result
\* of the cached entry without passing through acquire, without an upstream
\* request and without writing to the cache; a failure of embed or of
\* search_similarity ends the operation with that error before any upstream
\* request.
C22_StepsInOrder ==
    [][ /\ tool'.pc # tool.pc => <<tool.pc, tool'.pc>> \in StepOrder
        /\ UpstreamTouched => tool.pc = "request" /\ tool.from = <<>>
        /\ CacheWritten => tool.pc = "store" /\ tool.sent = 1 /\ tool.from = <<>>
        /\ (tool.pc = "search" /\ tool'.from # <<>>) =>
               /\ tool'.pc = "done"
               /\ tool'.result = HitResult(tool.tool, tool'.from[1])
               /\ tool'.sent = 0 /\ tool'.upstream = <<>> /\ tool'.stored = "none"
               /\ UNCHANGED <<last_call_time, lock, clk, acq>>
               /\ ~CacheWritten
        /\ (tool'.pc = "done" /\ tool'.result.err \in {"embed", "search"}) =>
               /\ tool.pc = (IF tool'.result.err = "embed" THEN "embed" ELSE "search")
               /\ tool'.sent = 0 /\ tool'.upstream = <<>> /\ tool'.stored = "none"
               /\ UNCHANGED <<last_call_time, lock, clk, acq, storage>>
        /\ (tool.pc = "search" /\ tool'.pc = "request") =>
               HitIndex(tool.tool, Results(storage, now, tool.embedding), tool.params) = 0
      ]_vars

\* a paper_search returned the result cached by an earlier operation, which
\* had fetched it upstream: the endpoint's timestamp is still the one of that
\* earlier request and nothing was sent
C22_Witness ==
    /\ tool.pc = "done" /\ tool.tool = "paper_search"
    /\ tool.from # <<>>
    /\ tool.result = Ok(tool.from[1].results)
    /\ tool.sent = 0 /\ tool.stored = "none"
    /\ tool.n >= 2
    /\ <<"/paper/search">> \in DOMAIN last_call_time

\* the operation that stored the entry q, as recorded in the result it stored
StoredBy(q) == q.results[2]

\* the operation ended on a cache hit
ReturnedFromCache == tool.pc = "done" /\ tool.from # <<>>

\* C23: an operation returns a cached result only from an entry of its own:
\* an entry stored by one operation is never returned as the result of a
\* different operation.
C23_HitOnlyOnOwnEntries ==
    ReturnedFromCache => StoredBy(tool.from[1]) = tool.tool

\* author_details returned, as its result, the text that paper_search had
\* stored
C23_Witness ==
    /\ ReturnedFromCache
    /\ tool.tool = "author_details"
    /\ StoredBy(tool.from[1]) = "paper_search"
    /\ tool.from[1].action = "paper_search"
    /\ tool.result = Ok(tool.from[1].results)

====
